---- MODULE Spec2Model ----
(***************************************************************************)
(* Huffman codec of chbaker0/huff: count_symbols, build_tree,              *)
(* codes_from_tree, encode and decode (src/lib.rs), the Keyed ordering and *)
(* the BitIter bit reader (src/util.rs), and the reference flow of main    *)
(* (src/main.rs).                                                          *)
(*                                                                         *)
(* A u32 is the pair <<hi, lo>> of its 16-bit halves, so that sums up to   *)
(* 2^33 and their wrap-around modulo 2^32 are exact.  A BitVec<u8> is the  *)
(* record [blocks, len]: bit i lives in block i \div 8 at position i % 8,  *)
(* least significant bit first, as in the bv crate.                        *)
(***************************************************************************)
EXTENDS Integers, Sequences, FiniteSets, TLC

\* ------------------------------------------------------------------ bounds
\* Symbols that a counts table handed to build_tree may mention.
NumSymbols == 5
\* Byte values that occur in the byte sequences that are counted and encoded.
NumInputSymbols == 3
\* Longest byte sequence run through the reference flow of main.
MaxLen == 6
\* Longest byte sequence handed to encode with a foreign code table.
MaxLibLen == 3
\* Longest packed byte sequence handed to decode directly.
MaxPackedLen == 2

\* ------------------------------------------------------- program constants
\* Bits in one block of a BitVec<u8> and in one byte of the bit reader.
BlockBits == 8
\* Blocks in SymbolCode::packed_bits.
PackedBlocks == 32
\* 2^16: a u32 is kept as two 16-bit halves.
Half == 65536
\* Longest bit string SymbolCode::from_bits accepts.
MaxCodeBits == 255

Symbols == 0 .. (NumSymbols - 1)
InputSymbols == 0 .. (NumInputSymbols - 1)
Nil == [kind |-> "None"]

\* ----------------------------------------------------------------- u32
U32(hi, lo) == <<hi, lo>>
Zero32 == U32(0, 0)
One32 == U32(0, 1)

\* Ordering of u32 keys.
U32Lt(a, b) == a[1] < b[1] \/ (a[1] = b[1] /\ a[2] < b[2])

\* The mathematical sum of two u32 values, hi half unbounded.
U32Sum(a, b) ==
  LET lo == a[2] + b[2]
  IN  <<a[1] + b[1] + (lo \div Half), lo % Half>>

\* a + b on u32: the wrapped value and whether the sum left the u32 range.
U32Add(a, b) ==
  LET s == U32Sum(a, b)
  IN  [overflow |-> s[1] >= Half, value |-> <<s[1] % Half, s[2]>>]

\* ------------------------------------------------------------- HuffNode
Leaf(s) == [kind |-> "Leaf", symbol |-> s]
Parent(z, o) == [kind |-> "Parent", zero |-> z, one |-> o]
IsLeaf(n) == n.kind = "Leaf"

\* Keyed<u32, HuffNode>: a key and a value.
Keyed(k, v) == [key |-> k, value |-> v]

\* Keyed forwards every comparison to the key: a < b.
KeyedLt(a, b) == U32Lt(a.key, b.key)

\* What BinaryHeap<Reverse<Keyed>>::pop may return: an element no other
\* element compares below.  The order among equal keys is the heap's own.
HeapPop(q) == {n \in q : \A m \in q : ~KeyedLt(m, n)}

\* ------------------------------------------------------------ BitVec<u8>
Pow2(k) == 2 ^ k

\* Bit i of a u8 block, least significant first (Bits::get_bit on u8).
BlockGetBit(block, i) == (block \div Pow2(i)) % 2

BlockSetBit(block, i, bit) == block + (bit - BlockGetBit(block, i)) * Pow2(i)

BitVecNew == [blocks |-> <<>>, len |-> 0]

BitVecPush(bv, bit) ==
  LET blk == (bv.len \div BlockBits) + 1
      grown == IF blk > Len(bv.blocks) THEN Append(bv.blocks, 0) ELSE bv.blocks
  IN  [blocks |-> [grown EXCEPT ![blk] = BlockSetBit(@, bv.len % BlockBits, bit)],
       len |-> bv.len + 1]

\* pop: the last bit leaves; get_block masks what lies beyond len.
BitVecPop(bv) ==
  LET last == bv.len - 1
      blk == (last \div BlockBits) + 1
      masked == [bv.blocks EXCEPT ![blk] = BlockSetBit(@, last % BlockBits, 0)]
  IN  [blocks |-> IF last % BlockBits = 0 THEN SubSeq(masked, 1, blk - 1) ELSE masked,
       len |-> last]

BitVecGetBlock(bv, i) == bv.blocks[i + 1]

BitVecBlockLen(bv) == Len(bv.blocks)

\* ------------------------------------------------------------ SymbolCode
\* packed_bits[i] of the source is packed_bits[i + 1] here.
DefaultCode == [packed_bits |-> [i \in 1 .. PackedBlocks |-> 0], length |-> 0]

\* from_bits that leaves packed_bits at its initial zeros.
FromBitsNoCopy(bits) ==
  IF bits.len > 0 /\ bits.len <= MaxCodeBits
  THEN [packed_bits |-> [i \in 1 .. PackedBlocks |-> 0], length |-> bits.len]
  ELSE Nil

\* SymbolCode::from_bits: the two assertions, then the blocks are copied.
FromBits(bits) ==
  IF bits.len > 0 /\ bits.len <= MaxCodeBits
  THEN [packed_bits |-> [i \in 1 .. PackedBlocks |->
                           IF i - 1 < BitVecBlockLen(bits) THEN BitVecGetBlock(bits, i - 1)
                           ELSE 0],
        length |-> bits.len]
  ELSE Nil

\* Bits::get_bit on a SymbolCode: block position \div 8, bit position % 8.
CodeGetBit(code, i) ==
  BlockGetBit(code.packed_bits[(i \div BlockBits) + 1], i % BlockBits)

\* ------------------------------------------------------ codes_from_tree
\* codes_from_tree_impl that pushes true towards zero and false towards one.
RECURSIVE CodesFromTreeImplSwapped(_, _, _)
CodesFromTreeImplSwapped(tree, codes, cur_bits) ==
  IF IsLeaf(tree)
  THEN LET code == FromBits(cur_bits)
       IN  IF code = Nil
           THEN [panic |-> TRUE, codes |-> codes, cur_bits |-> cur_bits]
           ELSE [panic |-> FALSE, codes |-> [codes EXCEPT ![tree.symbol] = code],
                 cur_bits |-> cur_bits]
  ELSE LET z == CodesFromTreeImplSwapped(tree.zero, codes, BitVecPush(cur_bits, 1))
       IN  IF z.panic THEN z
           ELSE LET o == CodesFromTreeImplSwapped(tree.one, z.codes,
                                                  BitVecPush(BitVecPop(z.cur_bits), 0))
                IN  IF o.panic THEN o
                    ELSE [panic |-> FALSE, codes |-> o.codes,
                          cur_bits |-> BitVecPop(o.cur_bits)]

RECURSIVE CodesFromTreeImpl(_, _, _)
CodesFromTreeImpl(tree, codes, cur_bits) ==
  IF IsLeaf(tree)
  THEN LET code == FromBits(cur_bits)
       IN  IF code = Nil
           THEN [panic |-> TRUE, codes |-> codes, cur_bits |-> cur_bits]
           ELSE [panic |-> FALSE, codes |-> [codes EXCEPT ![tree.symbol] = code],
                 cur_bits |-> cur_bits]
  ELSE LET z == CodesFromTreeImpl(tree.zero, codes, BitVecPush(cur_bits, 0))
       IN  IF z.panic THEN z
           ELSE LET o == CodesFromTreeImpl(tree.one, z.codes,
                                           BitVecPush(BitVecPop(z.cur_bits), 1))
                IN  IF o.panic THEN o
                    ELSE [panic |-> FALSE, codes |-> o.codes,
                          cur_bits |-> BitVecPop(o.cur_bits)]

\* ---------------------------------------------------------- count_symbols
\* counts[b] += 1 for each byte; the u32 count wraps only after 2^32
\* occurrences of one byte, beyond every input enumerated here.
RECURSIVE CountSymbols(_, _)
CountSymbols(bytes, counts) ==
  IF bytes = <<>> THEN counts
  ELSE CountSymbols(Tail(bytes),
                    [counts EXCEPT ![Head(bytes)] = U32Add(@, One32).value])

ZeroCounts == [s \in Symbols |-> Zero32]
NoCodes == [s \in Symbols |-> DefaultCode]

\* ----------------------------------------------------------------- encode
\* for i in 0..code.bit_len() { accumulator.push(code.get_bit(i)) }
RECURSIVE PushCodeFrom(_, _, _)
PushCodeFrom(acc, code, i) ==
  IF i >= code.length THEN acc
  ELSE PushCodeFrom(BitVecPush(acc, CodeGetBit(code, i)), code, i + 1)

PushCode(acc, code) == PushCodeFrom(acc, code, 0)

\* Every block is written, the last, partial one included.
FullBlocksPadded(acc) == [i \in 1 .. BitVecBlockLen(acc) |-> BitVecGetBlock(acc, i - 1)]

\* The blocks written to the sink: get_block(i) for i in 0..full_bytes.
FullBlocks(acc) ==
  LET full_bytes == acc.len \div BlockBits
  IN  [i \in 1 .. full_bytes |-> BitVecGetBlock(acc, i - 1)]

\* for i in 0..remainder_len { accumulator.push(remainder.get_bit(i)) }
RECURSIVE PushBlockFrom(_, _, _, _)
PushBlockFrom(acc, block, n, i) ==
  IF i >= n THEN acc
  ELSE PushBlockFrom(BitVecPush(acc, BlockGetBit(block, i)), block, n, i + 1)

\* The accumulator after the full blocks were written: cleared, then the bits
\* of the last, partial block pushed back.
Remainder(acc) ==
  LET full_bytes == acc.len \div BlockBits
      remainder_len == acc.len - full_bytes * BlockBits
  IN  IF remainder_len > 0
      THEN PushBlockFrom(BitVecNew, BitVecGetBlock(acc, full_bytes), remainder_len, 0)
      ELSE BitVecNew

\* ----------------------------------------------------------------- decode
BitIterNew == [pos |-> 0, cur |-> 0, bit_index |-> BlockBits]

\* BitIter::next that hands out the most significant bit first.
BitIterNextMsbFirst(it, bytes) ==
  LET refill == it.bit_index = BlockBits
      none == refill /\ it.pos >= Len(bytes)
      it1 == IF refill /\ ~none
             THEN [pos |-> it.pos + 1, cur |-> bytes[it.pos + 1], bit_index |-> 0]
             ELSE it
      it2 == [it1 EXCEPT !.bit_index = @ + 1]
  IN  IF none THEN [some |-> FALSE, bit |-> 0, iter |-> it]
      ELSE [some |-> TRUE, bit |-> BlockGetBit(it2.cur, BlockBits - it2.bit_index),
            iter |-> it2]

\* BitIter::next over the bytes `bytes`; pos counts the bytes taken from inner.
BitIterNext(it, bytes) ==
  LET refill == it.bit_index = BlockBits
      none == refill /\ it.pos >= Len(bytes)
      it1 == IF refill /\ ~none
             THEN [pos |-> it.pos + 1, cur |-> bytes[it.pos + 1], bit_index |-> 0]
             ELSE it
      it2 == [it1 EXCEPT !.bit_index = @ + 1]
  IN  IF none THEN [some |-> FALSE, bit |-> 0, iter |-> it]
      ELSE [some |-> TRUE, bit |-> BlockGetBit(it2.cur, it2.bit_index - 1), iter |-> it2]

\* decode_symbol that steps into zero on a set bit and into one on a clear bit.
RECURSIVE DecodeSymbolSwapped(_, _, _)
DecodeSymbolSwapped(it, bytes, tree) ==
  IF IsLeaf(tree) THEN [some |-> TRUE, symbol |-> tree.symbol, iter |-> it]
  ELSE LET n == BitIterNext(it, bytes)
       IN  IF ~n.some THEN [some |-> FALSE, symbol |-> 0, iter |-> n.iter]
           ELSE DecodeSymbolSwapped(n.iter, bytes, IF n.bit = 1 THEN tree.zero ELSE tree.one)

RECURSIVE DecodeSymbol(_, _, _)
DecodeSymbol(it, bytes, tree) ==
  IF IsLeaf(tree) THEN [some |-> TRUE, symbol |-> tree.symbol, iter |-> it]
  ELSE LET n == BitIterNext(it, bytes)
       IN  IF ~n.some THEN [some |-> FALSE, symbol |-> 0, iter |-> n.iter]
           ELSE DecodeSymbol(n.iter, bytes, IF n.bit = 1 THEN tree.one ELSE tree.zero)

\* ------------------------------------------------------------------ inputs
SeqsUpTo(S, n) == UNION {[1 .. k -> S] : k \in 0 .. n}

\* Counts as a caller of build_tree may hand them over: 0, 1, 2^31 - 1 and
\* 2^31, of which the last sums with itself past the u32 range.
CountVals == {Zero32, One32, U32(32767, 65535), U32(32768, 0)}
Tables == [Symbols -> CountVals]

\* Tables over the input symbols only, with small counts.
SmallTables ==
  {t \in [Symbols -> {Zero32, One32, U32(0, 2)}] :
     \A s \in Symbols \ InputSymbols : t[s] = Zero32}

\* Tables whose trees take every shape over every set of input symbols: with
\* equal counts the heap may pop the leaves in any order.
ShapeTables == {t \in SmallTables : \A s \in Symbols : t[s] \in {Zero32, One32}}

\* Packed bytes handed to decode directly: 00000000, 01001101, 10110010, 11111111.
PackedByteVals == {0, 77, 178, 255}

\* ------------------------------------------------------------------- state
VARIABLES
  entry,            \* which calls the client makes: "main", "build", "encode", "decode"
  overflow_checks,  \* the build: TRUE panics on u32 overflow, FALSE wraps; it shows
                    \* only where a sum can leave the u32 range, under "build"
  pc,               \* the stage the run is in
  input,            \* the bytes counted and encoded
  counts,           \* SymbolCounts.counts
  node_queue,       \* build_tree: the heap, as the set of its elements
  first, second,    \* build_tree: the two nodes the last iteration popped
  tree,             \* the root build_tree returned
  codes,            \* SymbolCodes.codes
  enc_pos,          \* encode: input bytes consumed
  accumulator,      \* encode: the pending bits
  encoded,          \* the sink of encode, the input of decode
  iter,             \* decode: the BitIter
  decoded           \* the sink of decode

vars == <<entry, overflow_checks, pc, input, counts, node_queue, first, second, tree,
          codes, enc_pos, accumulator, encoded, iter, decoded>>

\* The locals of the stages before the stages run.
InitLocals ==
  /\ node_queue = {}
  /\ first = Nil
  /\ second = Nil
  /\ tree = Nil
  /\ codes = NoCodes
  /\ enc_pos = 0
  /\ accumulator = BitVecNew
  /\ iter = BitIterNew
  /\ decoded = <<>>

\* main on an input file: count, build, derive the codes, encode, decode.
InitMain ==
  /\ entry = "main"
  /\ overflow_checks = TRUE
  /\ input \in SeqsUpTo(InputSymbols, MaxLen)
  /\ counts = ZeroCounts
  /\ encoded = <<>>
  /\ pc = "count"
  /\ InitLocals

\* A caller of build_tree and codes_from_tree with a table of its own.
InitBuild ==
  /\ entry = "build"
  /\ overflow_checks \in BOOLEAN
  /\ input = <<>>
  /\ counts \in Tables
  /\ encoded = <<>>
  /\ pc = "build"
  /\ InitLocals

\* A caller that encodes bytes with the codes of a table of its own.
InitEncode ==
  /\ entry = "encode"
  /\ overflow_checks = TRUE
  /\ input \in SeqsUpTo(InputSymbols, MaxLibLen)
  /\ counts \in SmallTables
  /\ encoded = <<>>
  /\ pc = "build"
  /\ InitLocals

\* A caller that decodes packed bytes of its own with the tree of a table.
InitDecode ==
  /\ entry = "decode"
  /\ overflow_checks = TRUE
  /\ input = <<>>
  /\ counts \in ShapeTables
  /\ encoded \in SeqsUpTo(PackedByteVals, MaxPackedLen)
  /\ pc = "build"
  /\ InitLocals

Init == InitMain \/ InitBuild \/ InitEncode \/ InitDecode

\* main: count_symbols over the input file.
CountSymbolsStep ==
  /\ pc = "count"
  /\ counts' = CountSymbols(input, ZeroCounts)
  /\ pc' = "build"
  /\ UNCHANGED <<entry, overflow_checks, input, node_queue, first, second, tree, codes,
                 enc_pos, accumulator, encoded, iter, decoded>>

\* build_tree: one leaf per symbol with a nonzero count.
SeedQueue(c) == {Keyed(c[s], Leaf(s)) : s \in {t \in Symbols : U32Lt(Zero32, c[t])}}

\* build_tree up to its assertion: the queue is seeded, and fewer than two
\* nodes abort the run.
BuildTreeSeed ==
  /\ pc = "build"
  /\ node_queue' = SeedQueue(counts)
  /\ pc' = IF Cardinality(node_queue') > 1 THEN "merge" ELSE "panic_assert"
  /\ UNCHANGED <<entry, overflow_checks, input, counts, first, second, tree, codes,
                 enc_pos, accumulator, encoded, iter, decoded>>

\* The queue after one iteration that popped f and s.
Merged(q, f, s) ==
  (q \ {f, s}) \cup {Keyed(U32Add(f.key, s.key).value, Parent(f.value, s.value))}

\* build_tree: one iteration of the loop.
BuildTreeMerge ==
  /\ pc = "merge"
  /\ Cardinality(node_queue) > 1
  /\ \E f \in HeapPop(node_queue) :
       \E s \in HeapPop(node_queue \ {f}) :
         /\ first' = f
         /\ second' = s
         /\ IF U32Add(f.key, s.key).overflow /\ overflow_checks
            THEN /\ node_queue' = node_queue \ {f, s}
                 /\ pc' = "panic_overflow"
            ELSE /\ node_queue' = Merged(node_queue, f, s)
                 /\ pc' = "merge"
  /\ UNCHANGED <<entry, overflow_checks, input, counts, tree, codes,
                 enc_pos, accumulator, encoded, iter, decoded>>

\* build_tree: the loop is over and the last node is the root.
BuildTreeReturn ==
  /\ pc = "merge"
  /\ Cardinality(node_queue) = 1
  /\ \E n \in HeapPop(node_queue) :
       /\ tree' = n.value
       /\ node_queue' = node_queue \ {n}
  /\ pc' = "codes"
  /\ UNCHANGED <<entry, overflow_checks, input, counts, first, second, codes,
                 enc_pos, accumulator, encoded, iter, decoded>>

\* codes_from_tree.
CodesFromTree ==
  /\ pc = "codes"
  /\ LET r == IF IsLeaf(tree) THEN [panic |-> TRUE, codes |-> NoCodes]
              ELSE CodesFromTreeImpl(tree, NoCodes, BitVecNew)
     IN  IF r.panic \/ r.cur_bits.len # 0
         THEN /\ pc' = "panic_codes"
              /\ codes' = codes
         ELSE /\ codes' = r.codes
              /\ pc' = CASE entry \in {"main", "encode"} -> "encode"
                         [] entry = "decode" -> "decode"
                         [] OTHER -> "done"
  /\ UNCHANGED <<entry, overflow_checks, input, counts, node_queue, first, second, tree,
                 enc_pos, accumulator, encoded, iter, decoded>>

\* encode: one iteration of the loop over the input bytes.
EncodeByte ==
  /\ pc = "encode"
  /\ enc_pos < Len(input)
  /\ LET acc == PushCode(accumulator, codes[input[enc_pos + 1]])
     IN  /\ encoded' = encoded \o FullBlocks(acc)
         /\ accumulator' = Remainder(acc)
  /\ enc_pos' = enc_pos + 1
  /\ UNCHANGED <<entry, overflow_checks, pc, input, counts, node_queue, first, second,
                 tree, codes, iter, decoded>>

\* encode: the input is exhausted and encode returns.
EncodeReturn ==
  /\ pc = "encode"
  /\ enc_pos = Len(input)
  /\ pc' = IF entry = "main" THEN "decode" ELSE "done"
  /\ UNCHANGED <<entry, overflow_checks, input, counts, node_queue, first, second, tree,
                 codes, enc_pos, accumulator, encoded, iter, decoded>>

\* decode: one iteration of the loop, one call of decode_symbol.
DecodeLoop ==
  /\ pc = "decode"
  /\ LET r == DecodeSymbol(iter, encoded, tree)
     IN  /\ iter' = r.iter
         /\ IF r.some
            THEN /\ decoded' = Append(decoded, r.symbol)
                 /\ pc' = "decode"
            ELSE /\ decoded' = decoded
                 /\ pc' = "done"
  /\ UNCHANGED <<entry, overflow_checks, input, counts, node_queue, first, second, tree,
                 codes, enc_pos, accumulator, encoded>>

\* build_tree and codes_from_tree.
NextTree ==
  \/ BuildTreeSeed
  \/ BuildTreeMerge
  \/ BuildTreeReturn
  \/ CodesFromTree

Next ==
  \/ CountSymbolsStep
  \/ NextTree
  \/ EncodeByte
  \/ EncodeReturn
  \/ DecodeLoop

\* Every entry.
Spec == Init /\ [][Next]_vars

\* The reference flow of main.
FlowSpec == InitMain /\ [][Next]_vars

\* build_tree and codes_from_tree on any table.
TreeSpec == InitBuild /\ [][NextTree]_vars

\* decode on any packed bytes.  The loop of decode runs on until decode_symbol
\* returns None: nothing else is scheduled beside it.
DecodeSpec == InitDecode /\ [][NextTree \/ DecodeLoop]_vars /\ WF_vars(DecodeLoop)

\* ------------------------------------------------------ notions of the claims
NonzeroSyms(c) == {s \in Symbols : c[s] # Zero32}

IsPrefixSeq(a, b) == Len(a) <= Len(b) /\ SubSeq(b, 1, Len(a)) = a

\* The bits of a code, in order, read off the packed representation.
CodeBits(code) == [i \in 1 .. code.length |-> CodeGetBit(code, i - 1)]

\* The leaves of a tree with their root-to-leaf paths: 0 into zero, 1 into one.
RECURSIVE LeafPaths(_, _)
LeafPaths(t, path) ==
  IF IsLeaf(t) THEN {<<t.symbol, path>>}
  ELSE LeafPaths(t.zero, Append(path, 0)) \cup LeafPaths(t.one, Append(path, 1))

PathsOf(t, s) == {p \in LeafPaths(t, <<>>) : p[1] = s}

\* The code table exists: codes_from_tree returned.
CodesBuilt == pc \in {"encode", "decode", "done"}

\* encode was called on input.
Encoding == CodesBuilt /\ entry \in {"main", "encode"}

\* encode returned normally.
EncodeReturned == entry \in {"main", "encode"} /\ pc \in {"decode", "done"}

\* C1: in the reference flow, decode writes exactly the bytes that were encoded.
RoundTrip == (entry = "main" /\ pc = "done") => decoded = input

\* C2: encode never returns normally from an input holding a byte whose code
\* has length 0.
EncodeRejectsMissingCode ==
  EncodeReturned => \A i \in 1 .. Len(input) : codes[input[i]].length > 0

\* build_tree is over: it returned a tree or it panicked.
BuildTreeOver == pc \notin {"count", "build", "merge"}

\* C3: build_tree aborts at its assertion, with no merge done and no tree,
\* when fewer than two counts are nonzero, and returns a tree otherwise.
BuildTreeBoundary ==
  /\ (pc # "count" /\ pc # "build" /\ Cardinality(NonzeroSyms(counts)) < 2)
       => (pc = "panic_assert" /\ first = Nil /\ tree = Nil)
  /\ (pc # "count" /\ Cardinality(NonzeroSyms(counts)) >= 2)
       => (pc \notin {"panic_assert", "panic_overflow"} /\ (BuildTreeOver => tree # Nil))

\* C4: no assigned code is a prefix of, or equal to, another assigned code.
PrefixFree ==
  CodesBuilt =>
    \A a, b \in Symbols :
      (a # b /\ codes[a].length > 0 /\ codes[b].length > 0)
        => ~IsPrefixSeq(CodeBits(codes[a]), CodeBits(codes[b]))

\* Codes of three symbols were built, two of them of different lengths.
PrefixFreeWitness ==
  /\ CodesBuilt
  /\ Cardinality({s \in Symbols : codes[s].length > 0}) >= 3
  /\ \E a, b \in Symbols : 0 < codes[a].length /\ codes[a].length < codes[b].length

\* The parent the last iteration of the build_tree loop had to reinsert.
ExactParent == Keyed(U32Sum(first.key, second.key), Parent(first.value, second.value))

\* C5: each iteration pops the two lightest nodes, the first as the zero
\* child and the second as the one child, and reinserts a parent that weighs
\* exactly the sum of the two.
MergeOrderInvariant ==
  /\ pc # "panic_overflow"
  /\ (pc = "merge" /\ first # Nil) =>
       /\ ExactParent \in node_queue
       /\ ~U32Lt(second.key, first.key)
       /\ \A n \in node_queue \ {ExactParent} : ~U32Lt(n.key, second.key)

\* C6: a symbol counted strictly more often has a code that is no longer.
OptimalityOrdering ==
  CodesBuilt =>
    \A a, b \in Symbols :
      (U32Lt(counts[b], counts[a]) /\ U32Lt(Zero32, counts[b]))
        => codes[a].length <= codes[b].length

\* C7: every counted symbol is exactly one leaf, its code is the nonempty path
\* to that leaf, and an uncounted symbol has no code.
CodesAgreeWithTree ==
  CodesBuilt =>
    \A s \in Symbols :
      IF counts[s] # Zero32
      THEN /\ Cardinality(PathsOf(tree, s)) = 1
           /\ codes[s].length > 0
           /\ \A p \in PathsOf(tree, s) : CodeBits(codes[s]) = p[2]
      ELSE /\ codes[s].length = 0
           /\ PathsOf(tree, s) = {}

\* A table with an uncounted symbol and codes that hold both bit values.
CodesAgreeWitness ==
  /\ CodesBuilt
  /\ \E s \in Symbols : counts[s] = Zero32
  /\ \E s \in Symbols : codes[s].length >= 3 /\ CodeBits(codes[s])[1] # CodeBits(codes[s])[3]

\* The codes of the first n input bytes, concatenated in input order.
RECURSIVE CodeStream(_)
CodeStream(n) ==
  IF n = 0 THEN <<>> ELSE CodeStream(n - 1) \o CodeBits(codes[input[n]])

\* The byte that holds bits 8(k-1)+1 .. 8k of B, the earliest bit lowest.
PackedByte(B, k) ==
  LET b(j) == B[BlockBits * (k - 1) + j + 1]
  IN  b(0) + 2 * b(1) + 4 * b(2) + 8 * b(3) + 16 * b(4) + 32 * b(5) + 64 * b(6) + 128 * b(7)

\* The bits pending in a BitVec, in order.
BitVecBits(bv) ==
  [i \in 1 .. bv.len |-> BlockGetBit(BitVecGetBlock(bv, (i - 1) \div BlockBits),
                                     (i - 1) % BlockBits)]

\* C8: with every input byte coded, after each input byte the sink holds the
\* whole bytes of the code stream so far and nothing else, fewer than 8 bits
\* are pending, and the pending bits are never written.
EncoderOutput ==
  (Encoding /\ \A i \in 1 .. Len(input) : codes[input[i]].length > 0) =>
    LET B == CodeStream(enc_pos)
        n == Len(B) \div BlockBits
    IN  /\ Len(encoded) = n
        /\ \A k \in 1 .. n : encoded[k] = PackedByte(B, k)
        /\ accumulator.len < BlockBits
        /\ BitVecBits(accumulator) = SubSeq(B, BlockBits * n + 1, Len(B))

\* encode returned with a byte written and bits left pending.
EncoderOutputWitness ==
  /\ EncodeReturned
  /\ \A i \in 1 .. Len(input) : codes[input[i]].length > 0
  /\ Len(encoded) >= 1
  /\ encoded[1] \notin {0, 255}
  /\ accumulator.len > 0

\* The bits of the packed bytes in the order BitIter yields them.
AllBits ==
  [i \in 1 .. BlockBits * Len(encoded) |->
     (encoded[((i - 1) \div BlockBits) + 1] \div Pow2((i - 1) % BlockBits)) % 2]

\* Bits the BitIter has handed out.
BitsRead == IF iter.pos = 0 THEN 0 ELSE BlockBits * (iter.pos - 1) + iter.bit_index

\* The paths to the leaves of the symbols of d, concatenated.
RECURSIVE PathStream(_, _)
PathStream(t, d) ==
  IF d = <<>> THEN <<>>
  ELSE LET p == CHOOSE q \in PathsOf(t, Head(d)) : TRUE
       IN  p[2] \o PathStream(t, Tail(d))

\* decode is running or has returned.
Decoding == pc \in {"decode", "done"} /\ entry \in {"main", "decode"}

\* The symbols emitted spell, path by path, the bits read so far; at the end
\* every bit was read and the bits after the last emission reach no leaf.
DecodeWalk ==
  Decoding =>
    LET P == PathStream(tree, decoded)
        rest == SubSeq(AllBits, Len(P) + 1, Len(AllBits))
    IN  /\ \A i \in 1 .. Len(decoded) : PathsOf(tree, decoded[i]) # {}
        /\ IsPrefixSeq(P, AllBits)
        /\ pc = "decode" => Len(P) = BitsRead
        /\ pc = "done" =>
             /\ iter.pos = Len(encoded)
             /\ iter.bit_index = BlockBits
             /\ \A q \in LeafPaths(tree, <<>>) : ~IsPrefixSeq(q[2], rest)

\* C9: decode walks the tree bit by bit in the order encode packed the bits,
\* emits one symbol per leaf reached, drops an unfinished last walk, stops
\* only when the bits are exhausted, and terminates.
DecodeWalkAndTermination == []DecodeWalk /\ (pc = "decode" ~> pc = "done")

\* decode returned after emitting symbols and dropping an unfinished walk.
DecodeWalkWitness ==
  /\ pc = "done"
  /\ entry = "decode"
  /\ Len(decoded) >= 3
  /\ \E i, j \in 1 .. Len(decoded) : decoded[i] # decoded[j]
  /\ Len(PathStream(tree, decoded)) < Len(AllBits)

\* Bits of the code stream up to and including input byte i.
RECURSIVE CumBits(_)
CumBits(i) == IF i = 0 THEN 0 ELSE CumBits(i - 1) + codes[input[i]].length

\* C10: in the reference flow the decoded bytes are a prefix of the input,
\* and at the end they are the input bytes whose codes lie wholly within the
\* bytes encode wrote.
DecodedIsPrefix ==
  (entry = "main" /\ pc \in {"decode", "done"}) =>
    /\ IsPrefixSeq(decoded, input)
    /\ pc = "done" =>
         Len(decoded) =
           Cardinality({i \in 1 .. Len(input) : CumBits(i) <= BlockBits * Len(encoded)})

\* The reference flow ended with some, but not all, of the input decoded.
DecodedIsPrefixWitness ==
  /\ entry = "main"
  /\ pc = "done"
  /\ 0 < Len(decoded)
  /\ Len(decoded) < Len(input)

====
